---- MODULE Spec2Model ----
(***************************************************************************)
(* Model of the portal proxy bootstrap (src/main.go): the startup          *)
(* sequence of main, the database readiness loop of initConnPool, the      *)
(* echo route table built by registerRoutes, request dispatch through the  *)
(* middleware chain, and the signal-triggered shutdown.                    *)
(***************************************************************************)
EXTENDS Integers, Sequences, FiniteSets, TLC

\* -------------------------------------------------------------- bounds
\* Largest clock value (seconds since the readiness loop was entered) from
\* which the loop may still go to sleep.
MaxClock == 605
\* Signals the environment delivers to the process.
MaxSignals == 1
\* Requests in flight at once, each on its own goroutine.
MaxInFlight == 1
\* Largest HTTPClientTimeoutInSecs tried on initializeHTTPClient.
MaxTimeoutSecs == 60

\* ----------------------------------------------------------- constants
\* const TimeoutBoundary = 10 (minutes)
TimeoutBoundary == 10
\* time.Second, the unit of the model's clock
Second == 1
\* time.Minute
Minute == 60 * Second
\* make(chan os.Signal, 2)
SigChanCap == 2

\* ------------------------------------------------------- time.Duration
\* A time.Duration is an int64 count of nanoseconds. It is kept as its
\* eight bytes in two's complement, least significant first, so that a
\* product wraps exactly as Go's int64 multiplication does.
\* time.Second as a count of nanoseconds.
SecondInNanos == 1000000000

RECURSIVE ByteOf(_, _)
ByteOf(n, i) == IF i = 1 THEN n % 256 ELSE ByteOf(n \div 256, i - 1)

\* time.Duration(n) for a natural n below 2^31.
Duration(n) == [i \in 1..8 |-> ByteOf(n, i)]

\* Column k of the schoolbook product of a and b.
RECURSIVE Column(_, _, _, _)
Column(a, b, k, i) ==
    IF i > k THEN 0 ELSE a[i] * b[k + 1 - i] + Column(a, b, k, i + 1)

RECURSIVE MulFrom(_, _, _, _, _)
MulFrom(a, b, k, carry, acc) ==
    IF k > 8 THEN acc
    ELSE LET t == Column(a, b, k, 1) + carry
         IN  MulFrom(a, b, k + 1, t \div 256, Append(acc, t % 256))

\* a * b on int64: the low 64 bits of the product.
MulDuration(a, b) == MulFrom(a, b, 1, 0, << >>)

\* d > 0 on int64: the sign bit is clear and d is not zero.
PositiveDuration(d) == d[8] < 128 /\ d # Duration(0)

\* time.Duration(portalConfig.HTTPClientTimeoutInSecs) * time.Second, the
\* argument main passes to initializeHTTPClient.
TimeoutArgument(secs) == MulDuration(Duration(secs), Duration(SecondInNanos))

\* httpClient.Timeout = time.Second * timeoutInSeconds
initializeHTTPClient(timeoutInSeconds) ==
    MulDuration(Duration(SecondInNanos), timeoutInSeconds)

\* The HTTPClientTimeoutInSecs the portal configuration carries in a run of
\* main.
HTTPClientTimeouts == {30}

\* ------------------------------------------------------- hex decoding
\* encoding/hex: the digits accepted by hex.DecodeString, in value order.
HexChars == <<"0", "1", "2", "3", "4", "5", "6", "7",
              "8", "9", "a", "b", "c", "d", "e", "f">>

IsHex(c) == \E i \in 1..Len(HexChars) : HexChars[i] = c

HexVal(c) == (CHOOSE i \in 1..Len(HexChars) : HexChars[i] = c) - 1

\* hex.DecodeString(s): the bytes decoded before the first error, and the
\* error ("nil", "InvalidByte" or "ErrLength").
RECURSIVE HexDecodeFrom(_, _, _)
HexDecodeFrom(s, i, acc) ==
    IF i > Len(s) THEN [bytes |-> acc, err |-> "nil"]
    ELSE IF ~IsHex(s[i]) THEN [bytes |-> acc, err |-> "InvalidByte"]
    ELSE IF i = Len(s) THEN [bytes |-> acc, err |-> "ErrLength"]
    ELSE IF ~IsHex(s[i + 1]) THEN [bytes |-> acc, err |-> "InvalidByte"]
    ELSE HexDecodeFrom(s, i + 2,
                       Append(acc, 16 * HexVal(s[i]) + HexVal(s[i + 1])))

HexDecodeString(s) == HexDecodeFrom(s, 1, <<>>)

\* Values of the EncryptionKey configuration input: absent, valid hex,
\* a non-hex digit, an odd number of digits.
KeySamples == { <<>>, <<"0", "a">>, <<"z", "z">>, <<"0", "a", "f">> }

\* The key tokens.ReadKey yields from the shared volume when the file is
\* readable.
VolumeKey == <<171, 205>>

\* A getEncryptionKey that falls back to the key file when the inline key
\* does not decode.
getEncryptionKeyWithFallback(inline, fileOK) ==
    IF Len(inline) > 0 /\ HexDecodeString(inline).err = "nil"
    THEN [key |-> HexDecodeString(inline).bytes, err |-> "nil",
          fileRead |-> FALSE]
    ELSE IF fileOK THEN [key |-> VolumeKey, err |-> "nil", fileRead |-> TRUE]
    ELSE [key |-> << >>, err |-> "ReadKey", fileRead |-> TRUE]

\* getEncryptionKey(pc): the key and the error it returns; fileOK is the
\* outcome of reading the key file, consulted only when the inline key is
\* empty. fileRead tells whether tokens.ReadKey was called.
getEncryptionKey(inline, fileOK) ==
    IF Len(inline) > 0
    THEN [key |-> HexDecodeString(inline).bytes, err |-> "nil",
          fileRead |-> FALSE]
    ELSE IF fileOK THEN [key |-> VolumeKey, err |-> "nil", fileRead |-> TRUE]
    ELSE [key |-> << >>, err |-> "ReadKey", fileRead |-> TRUE]

\* if err != nil after getEncryptionKey: main logs and exits.
KeyErrIgnored(e) == FALSE

KeyErrFatal(e) == e # "nil"

\* if err != nil after initConnPool: main logs and exits.
PoolErrIgnored(e) == FALSE

PoolErrFatal(e) == e # "nil"

\* ------------------------------------------------------ readiness loop
\* How long one datastore.Ping may take: it answers at once, or hangs for
\* longer than the whole boundary.
SlowPing == TimeoutBoundary * Minute + Second

PingDurations == {0, SlowPing}

\* timeout := time.Now().Add(time.Minute * TimeoutBoundary)
Deadline(t) == t + TimeoutBoundary * Minute

\* timeout.Sub(time.Now()) < 0
BoundaryExceeded(deadline, t) == deadline - t < 0

\* Where the loop goes after a ping: break on success, else the timeout
\* check.
AfterPingNoBreak(ok) == "checkTimeout"

AfterPing(ok) == IF ok THEN "checkPoolErr" ELSE "checkTimeout"

\* ---------------------------------------------------------- echo router
\* The root level middleware without the post-upgrade guard.
RootMiddlewareNoUpgradeGuard ==
    << "sessionCleanupMiddleware", "Logger", "Recover", "CORS",
       "errorLoggingMiddleware" >>

\* The root level middleware start() installs with e.Use, in order.
RootMiddleware ==
    << "sessionCleanupMiddleware", "Logger", "Recover", "CORS",
       "errorLoggingMiddleware", "retryAfterUpgradeMiddleware" >>

\* One statement of registerRoutes. recv is the receiver: "e" (the echo
\* instance) or the local variable holding a group.
RouteStmt(recv, method, path, handler) ==
    [op |-> "route", var |-> "", recv |-> recv, method |-> method,
     path |-> path, handler |-> handler, m |-> ""]

GroupStmt(var, recv, prefix) ==
    [op |-> "group", var |-> var, recv |-> recv, method |-> "",
     path |-> prefix, handler |-> "", m |-> ""]

UseStmt(recv, m) ==
    [op |-> "use", var |-> "", recv |-> recv, method |-> "",
     path |-> <<>>, handler |-> "", m |-> m]

AssignStmt(var, from) ==
    [op |-> "assign", var |-> var, recv |-> from, method |-> "",
     path |-> <<>>, handler |-> "", m |-> ""]

\* The body of registerRoutes, statement by statement, in the blocks the
\* source separates by comments. Paths are sequences of segments.
PublicRoutes ==
    << RouteStmt("e", "POST", <<"v1", "auth", "login", "uaa">>, "loginToUAA"),
       RouteStmt("e", "POST", <<"v1", "auth", "logout">>, "logout") >>

SessionRoutes ==
    << GroupStmt("sessionGroup", "e", <<"v1">>),
       UseStmt("sessionGroup", "sessionMiddleware"),
       RouteStmt("sessionGroup", "POST", <<"auth", "login", "cnsi">>, "loginToCNSI"),
       RouteStmt("sessionGroup", "POST", <<"auth", "logout", "cnsi">>, "logoutOfCNSI"),
       RouteStmt("sessionGroup", "GET", <<"auth", "session", "verify">>, "verifySession"),
       RouteStmt("sessionGroup", "GET", <<"cnsis">>, "listCNSIs"),
       RouteStmt("sessionGroup", "GET", <<"cnsis", "registered">>, "listRegisteredCNSIs"),
       RouteStmt("sessionGroup", "GET", <<":cnsiGuid", "apps", ":appGuid", "stream">>, "appStream"),
       RouteStmt("sessionGroup", "GET", <<"stackato", "info">>, "stackatoInfo"),
       RouteStmt("sessionGroup", "GET", <<"version">>, "getVersions") >>

VCSRoutes ==
    << GroupStmt("vcsGroup", "sessionGroup", <<"vcs">>),
       RouteStmt("vcsGroup", "GET", <<"oauth", "auth">>, "handleVCSAuth"),
       RouteStmt("vcsGroup", "GET", <<"oauth", "callback">>, "handleVCSAuthCallback"),
       RouteStmt("vcsGroup", "GET", <<"clients">>, "listVCSClients"),
       RouteStmt("vcsGroup", "GET", <<"oauth", "verify">>, "verifyVCSOAuthToken"),
       RouteStmt("vcsGroup", "ANY", <<"*">>, "vcsProxy") >>

ProxyRoutes ==
    << GroupStmt("group", "sessionGroup", <<"proxy">>),
       RouteStmt("group", "ANY", <<"*">>, "proxy") >>

\* adminGroup.Use placed after the routes it is meant to guard.
AdminRoutesUseLast ==
    << AssignStmt("adminGroup", "sessionGroup"),
       RouteStmt("adminGroup", "POST", <<"register", "hcf">>, "registerHCFCluster"),
       RouteStmt("adminGroup", "POST", <<"register", "hce">>, "registerHCECluster"),
       RouteStmt("adminGroup", "POST", <<"unregister">>, "unregisterCluster"),
       UseStmt("adminGroup", "stackatoAdminMiddleware") >>

AdminRoutes ==
    << AssignStmt("adminGroup", "sessionGroup"),
       UseStmt("adminGroup", "stackatoAdminMiddleware"),
       RouteStmt("adminGroup", "POST", <<"register", "hcf">>, "registerHCFCluster"),
       RouteStmt("adminGroup", "POST", <<"register", "hce">>, "registerHCECluster"),
       RouteStmt("adminGroup", "POST", <<"unregister">>, "unregisterCluster") >>

\* The admin block moved above the /proxy group.
RegisterProgramAdminEarly ==
    PublicRoutes \o SessionRoutes \o VCSRoutes \o AdminRoutes \o ProxyRoutes

RegisterProgram ==
    PublicRoutes \o SessionRoutes \o VCSRoutes \o ProxyRoutes \o AdminRoutes

\* The echo instance seen as a receiver: no prefix, no group middleware.
EchoRoot == [prefix |-> <<>>, middleware |-> <<>>]

\* The group a statement's receiver denotes: local variables hold
\* pointers (binds) into the groups allocated so far.
Receiver(groups_, binds_, recv) ==
    IF recv = "e" THEN EchoRoot ELSE groups_[binds_[recv]]

\* A sub-group that does not inherit the receiver's middleware.
NewGroupNoInherit(parent, prefix) ==
    [prefix |-> parent.prefix \o prefix, middleware |-> <<>>]

\* recv.Group(prefix): a new group whose middleware list is a copy of the
\* receiver's list at this moment.
NewGroup(parent, prefix) ==
    [prefix |-> parent.prefix \o prefix, middleware |-> parent.middleware]

\* recv.POST/GET/Any(path, h): the route keeps the middleware the group
\* holds when the route is added.
NewRoute(g, stmt) ==
    [method |-> stmt.method, path |-> g.prefix \o stmt.path,
     handler |-> stmt.handler, middleware |-> g.middleware]

\* The registration state after one statement.
ExecStmt(stmt, groups_, binds_, routes_) ==
    CASE stmt.op = "group" ->
           [groups |-> [v \in DOMAIN groups_ \cup {stmt.var} |->
                          IF v = stmt.var
                          THEN NewGroup(Receiver(groups_, binds_, stmt.recv), stmt.path)
                          ELSE groups_[v]],
            binds |-> [v \in DOMAIN binds_ \cup {stmt.var} |->
                          IF v = stmt.var THEN stmt.var ELSE binds_[v]],
            routes |-> routes_]
      [] stmt.op = "use" ->
           [groups |-> [groups_ EXCEPT ![binds_[stmt.recv]].middleware =
                                          Append(@, stmt.m)],
            binds |-> binds_,
            routes |-> routes_]
      [] stmt.op = "assign" ->
           [groups |-> groups_,
            binds |-> [v \in DOMAIN binds_ \cup {stmt.var} |->
                          IF v = stmt.var THEN binds_[stmt.recv] ELSE binds_[v]],
            routes |-> routes_]
      [] stmt.op = "route" ->
           [groups |-> groups_,
            binds |-> binds_,
            routes |-> routes_ \cup
                         {NewRoute(Receiver(groups_, binds_, stmt.recv), stmt)}]

\* ---------------------------------------------------- middleware chain
\* What each interceptor answers for a request: a response that ends the
\* chain, or "" when it calls the next handler.
sessionMiddleware(req) ==
    IF req.session # "valid" THEN "Unauthorized" ELSE ""

retryAfterUpgradeMiddleware(req) ==
    IF req.upgrading THEN "RetryAfter" ELSE ""

stackatoAdminMiddleware(req) ==
    IF ~req.admin THEN "Forbidden" ELSE ""

MiddlewareResponse(m, req) ==
    CASE m = "sessionMiddleware" -> sessionMiddleware(req)
      [] m = "retryAfterUpgradeMiddleware" -> retryAfterUpgradeMiddleware(req)
      [] m = "stackatoAdminMiddleware" -> stackatoAdminMiddleware(req)
      [] OTHER -> ""

\* The interceptors wrapped around a route's handler, outermost first:
\* the root level middleware, then the middleware the route was added
\* with.
HandlerChain(root, route) == root \o route.middleware

\* Runs the chain from position i: the interceptors that ran (trail) and
\* the response of the one that ended the chain ("" when the route
\* handler is reached).
RECURSIVE RunChain(_, _, _, _)
RunChain(chain, i, req, trail) ==
    IF i > Len(chain) THEN [trail |-> trail, response |-> ""]
    ELSE LET resp == MiddlewareResponse(chain[i], req)
         IN  IF resp # ""
             THEN [trail |-> Append(trail, chain[i]), response |-> resp]
             ELSE RunChain(chain, i + 1, req, Append(trail, chain[i]))

Sessions == {"valid", "missing", "expired"}

Reqs == 1..MaxInFlight

NoRoute == [method |-> "", path |-> <<>>, handler |-> "", middleware |-> <<>>]

Idle ==
    [stage |-> "idle", route |-> NoRoute, session |-> "missing",
     admin |-> FALSE, upgrading |-> FALSE, trail |-> <<>>, response |-> ""]

\* ------------------------------------------------------------------ state
VARIABLES
    pc,             \* position of the main goroutine
    exitStatus,     \* "running", "exit0", "exit1" or "signalled"
    err,            \* main's err variable: "nil" or the failed step
    config,         \* portalConfig
    pool,           \* databaseConnectionPool: "nil", "open", "closed"
    store,          \* sessionStore: "nil", "open", "closed"
    now,            \* time.Now() in initConnPool, seconds since it began
    timeout,        \* initConnPool's timeout variable
    pings,          \* pings made by the readiness loop
    okPings,        \* pings that succeeded
    sleeps,         \* sleeps taken by the readiness loop
    deferred,       \* main's deferred calls, last registered first
    sigPc,          \* position of the signal goroutine
    sigChan,        \* signals buffered in channel c
    signalsSent,    \* signals delivered to the process so far
    cleanupRunning, \* session store cleanup goroutines running
    ops,            \* pool and store operations performed, in order
    echoMiddleware, \* the echo instance's root level middleware
    groups,         \* route groups allocated by registerRoutes
    binds,          \* registerRoutes' local variables: name -> group
    ip,             \* next statement of registerRoutes
    routes,         \* the router's table
    reqs,           \* requests in flight
    httpClientTimeout, \* httpClient.Timeout
    keyFile         \* the key file: "unread", "read" or "unreadable"

vars ==
    << pc, exitStatus, err, config, pool, store, now, timeout, pings,
       okPings, sleeps, deferred, sigPc, sigChan, signalsSent,
       cleanupRunning, ops, echoMiddleware, groups, binds, ip, routes, reqs,
       httpClientTimeout, keyFile >>

guardVars == << now, timeout, pings, okPings, sleeps >>
resourceVars == << pool, store, cleanupRunning, ops >>
signalVars == << sigPc, sigChan, signalsSent >>
echoVars == << echoMiddleware, groups, binds, ip, routes >>
startupVars == << httpClientTimeout, keyFile >>

Alive == exitStatus = "running"

\* The state main starts in, apart from its position and portalConfig.
InitRest ==
    /\ exitStatus = "running"
    /\ err = "nil"
    /\ pool = "nil"
    /\ store = "nil"
    /\ now = 0
    /\ timeout = 0
    /\ pings = 0
    /\ okPings = 0
    /\ sleeps = 0
    /\ deferred = <<>>
    /\ sigPc = "none"
    /\ sigChan = 0
    /\ signalsSent = 0
    /\ cleanupRunning = 0
    /\ ops = <<>>
    /\ echoMiddleware = <<>>
    /\ groups = [v \in {} |-> EchoRoot]
    /\ binds = [v \in {} |-> ""]
    /\ ip = 0
    /\ routes = {}
    /\ reqs = [r \in Reqs |-> Idle]
    /\ httpClientTimeout = Duration(0)
    /\ keyFile = "unread"

Init ==
    /\ pc = "loadPortalConfig"
    /\ config = [EncryptionKey |-> <<>>, EncryptionKeyInBytes |-> <<>>,
                 VCSClientMap |-> "unset", HTTPClientTimeoutInSecs |-> 0]
    /\ InitRest

\* main about to call initializeHTTPClient, the portal configuration loaded
\* with any HTTPClientTimeoutInSecs from 1 to MaxTimeoutSecs.
InitHTTPClient ==
    /\ pc = "initializeHTTPClient"
    /\ \E secs \in 1..MaxTimeoutSecs :
          config = [EncryptionKey |-> <<>>, EncryptionKeyInBytes |-> <<>>,
                    VCSClientMap |-> "unset", HTTPClientTimeoutInSecs |-> secs]
    /\ InitRest

\* ------------------------------------------------------------ main: startup
\* portalConfig, err := loadPortalConfig(portalConfig); fatal on error.
LoadPortalConfig ==
    /\ Alive /\ pc = "loadPortalConfig"
    /\ \/ \E key \in KeySamples, secs \in HTTPClientTimeouts :
             /\ config' = [config EXCEPT !.EncryptionKey = key,
                                         !.HTTPClientTimeoutInSecs = secs]
             /\ err' = "nil"
             /\ pc' = "initializeHTTPClient"
             /\ UNCHANGED exitStatus
       \/ /\ err' = "loadPortalConfig"
          /\ exitStatus' = "exit1"
          /\ UNCHANGED << pc, config >>
    /\ UNCHANGED << startupVars, guardVars, resourceVars, signalVars, echoVars, deferred, reqs >>

InitializeHTTPClient ==
    /\ Alive /\ pc = "initializeHTTPClient"
    /\ httpClientTimeout' =
          initializeHTTPClient(TimeoutArgument(config.HTTPClientTimeoutInSecs))
    /\ pc' = "getEncryptionKey"
    /\ UNCHANGED << keyFile, exitStatus, err, config, guardVars, resourceVars,
                    signalVars, echoVars, deferred, reqs >>

\* portalConfig.EncryptionKeyInBytes, err = getEncryptionKey(portalConfig)
GetEncryptionKey ==
    /\ Alive /\ pc = "getEncryptionKey"
    /\ \E fileOK \in BOOLEAN :
          LET res == getEncryptionKey(config.EncryptionKey, fileOK)
          IN  /\ config' = [config EXCEPT !.EncryptionKeyInBytes = res.key]
              /\ err' = res.err
              /\ keyFile' = IF ~res.fileRead THEN "unread"
                            ELSE IF fileOK THEN "read" ELSE "unreadable"
    /\ pc' = "checkKeyErr"
    /\ UNCHANGED << httpClientTimeout, exitStatus, guardVars, resourceVars, signalVars,
                    echoVars, deferred, reqs >>

\* if err != nil { log.Println(err); os.Exit(1) }
CheckKeyErr ==
    /\ Alive /\ pc = "checkKeyErr"
    /\ IF KeyErrFatal(err)
       THEN exitStatus' = "exit1" /\ UNCHANGED pc
       ELSE pc' = "getVCSClients" /\ UNCHANGED exitStatus
    /\ UNCHANGED << startupVars, err, config, guardVars, resourceVars, signalVars,
                    echoVars, deferred, reqs >>

\* portalConfig.VCSClientMap, err = getVCSClients(portalConfig)
GetVCSClients ==
    /\ Alive /\ pc = "getVCSClients"
    /\ \E ok \in BOOLEAN :
          /\ config' = [config EXCEPT !.VCSClientMap =
                                        IF ok THEN "loaded" ELSE "failed"]
          /\ err' = IF ok THEN "nil" ELSE "getVCSClients"
    /\ pc' = "checkVCSErr"
    /\ UNCHANGED << startupVars, exitStatus, guardVars, resourceVars, signalVars,
                    echoVars, deferred, reqs >>

\* if err != nil { log.Println("Error parsing VCS clients") }
CheckVCSErr ==
    /\ Alive /\ pc = "checkVCSErr"
    /\ pc' = "loadDatabaseConfig"
    /\ UNCHANGED << startupVars, exitStatus, err, config, guardVars, resourceVars,
                    signalVars, echoVars, deferred, reqs >>

\* ------------------------------------------------------ main: initConnPool
\* dc, err := loadDatabaseConfig(dc); if err != nil { return nil, err }
LoadDatabaseConfig ==
    /\ Alive /\ pc = "loadDatabaseConfig"
    /\ \/ /\ err' = "nil"
          /\ pc' = "getConnection"
       \/ /\ err' = "loadDatabaseConfig"
          /\ pc' = "checkPoolErr"
    /\ UNCHANGED << startupVars, exitStatus, config, guardVars, resourceVars, signalVars,
                    echoVars, deferred, reqs >>

\* pool, err = datastore.GetConnection(dc); if err != nil { return nil, err }
GetConnection ==
    /\ Alive /\ pc = "getConnection"
    /\ \/ /\ err' = "nil"
          /\ pool' = "open"
          /\ pc' = "loopTop"
       \/ /\ err' = "GetConnection"
          /\ pc' = "checkPoolErr"
          /\ UNCHANGED pool
    /\ UNCHANGED << startupVars, exitStatus, config, guardVars, store, cleanupRunning, ops,
                    signalVars, echoVars, deferred, reqs >>

\* for { timeout := time.Now().Add(time.Minute * TimeoutBoundary)
LoopTop ==
    /\ Alive /\ pc = "loopTop"
    /\ timeout' = Deadline(now)
    /\ pc' = "ping"
    /\ UNCHANGED << startupVars, exitStatus, err, config, now, pings, okPings, sleeps,
                    resourceVars, signalVars, echoVars, deferred, reqs >>

\* err = datastore.Ping(pool); if err == nil { break }
Ping ==
    /\ Alive /\ pc = "ping"
    /\ \E d \in PingDurations, ok \in BOOLEAN :
          /\ now' = now + d
          /\ pings' = pings + 1
          /\ okPings' = IF ok THEN okPings + 1 ELSE okPings
          /\ err' = IF ok THEN "nil" ELSE "Ping"
          /\ pc' = AfterPing(ok)
    /\ UNCHANGED << startupVars, exitStatus, config, timeout, sleeps, resourceVars,
                    signalVars, echoVars, deferred, reqs >>

\* if timeout.Sub(time.Now()) < 0 { return nil, fmt.Errorf("Timeout ...") }
CheckTimeout ==
    /\ Alive /\ pc = "checkTimeout"
    /\ IF BoundaryExceeded(timeout, now)
       THEN err' = "Timeout" /\ pc' = "checkPoolErr"
       ELSE pc' = "sleep" /\ UNCHANGED err
    /\ UNCHANGED << startupVars, exitStatus, config, guardVars, resourceVars, signalVars,
                    echoVars, deferred, reqs >>

\* time.Sleep(time.Second), and back to the top of the loop
Sleep ==
    /\ Alive /\ pc = "sleep"
    /\ now + Second <= MaxClock
    /\ now' = now + Second
    /\ sleeps' = sleeps + 1
    /\ pc' = "loopTop"
    /\ UNCHANGED << startupVars, exitStatus, err, config, timeout, pings, okPings,
                    resourceVars, signalVars, echoVars, deferred, reqs >>

\* databaseConnectionPool, err = initConnPool(); fatal on error, else the
\* pool's Close is deferred. initConnPool's locals are gone.
CheckPoolErr ==
    /\ Alive /\ pc = "checkPoolErr"
    /\ IF PoolErrFatal(err)
       THEN exitStatus' = "exit1" /\ UNCHANGED << pc, deferred >>
       ELSE /\ pc' = "initSessionStore"
            /\ deferred' = << "pool.Close" >> \o deferred
            /\ UNCHANGED exitStatus
    /\ now' = 0 /\ timeout' = 0 /\ pings' = 0 /\ okPings' = 0 /\ sleeps' = 0
    /\ UNCHANGED << startupVars, err, config, resourceVars, signalVars, echoVars, reqs >>

\* ------------------------------------------------- main: store and proxy
\* sessionStore, err := initSessionStore(pool, portalConfig); fatal on
\* error, else the store's Close and the cleanup stop are deferred.
InitSessionStore ==
    /\ Alive /\ pc = "initSessionStore"
    /\ \/ /\ err' = "nil"
          /\ store' = "open"
          /\ deferred' = << "store.Cleanup", "store.Close" >> \o deferred
          /\ pc' = "newPortalProxy"
          /\ UNCHANGED exitStatus
       \/ /\ err' = "initSessionStore"
          /\ exitStatus' = "exit1"
          /\ UNCHANGED << pc, store, deferred >>
    /\ UNCHANGED << startupVars, config, guardVars, pool, cleanupRunning, ops, signalVars,
                    echoVars, reqs >>

NewPortalProxy ==
    /\ Alive /\ pc = "newPortalProxy"
    /\ pc' = "signalNotify"
    /\ UNCHANGED << startupVars, exitStatus, err, config, guardVars, resourceVars,
                    signalVars, echoVars, deferred, reqs >>

\* c := make(chan os.Signal, 2); signal.Notify(c, ...); go func() {...}()
SignalNotify ==
    /\ Alive /\ pc = "signalNotify"
    /\ sigPc' = "waiting"
    /\ pc' = "start"
    /\ UNCHANGED << startupVars, exitStatus, err, config, guardVars, resourceVars, sigChan,
                    signalsSent, echoVars, deferred, reqs >>

\* ---------------------------------------------------------- main: start
\* e := echo.New(); e.Use(...) six times
Start ==
    /\ Alive /\ pc = "start"
    /\ echoMiddleware' = RootMiddleware
    /\ ip' = 1
    /\ pc' = "registerRoutes"
    /\ UNCHANGED << startupVars, exitStatus, err, config, guardVars, resourceVars,
                    signalVars, groups, binds, routes, deferred, reqs >>

\* One statement of p.registerRoutes(e).
RegisterStep ==
    /\ Alive /\ pc = "registerRoutes"
    /\ ip <= Len(RegisterProgram)
    /\ LET st == ExecStmt(RegisterProgram[ip], groups, binds, routes)
       IN  /\ groups' = st.groups
           /\ binds' = st.binds
           /\ routes' = st.routes
    /\ ip' = ip + 1
    /\ UNCHANGED << startupVars, pc, exitStatus, err, config, guardVars, resourceVars,
                    signalVars, echoMiddleware, deferred, reqs >>

\* registerRoutes returns: its locals and the groups they held are gone,
\* the router keeps the routes.
RegisterReturn ==
    /\ Alive /\ pc = "registerRoutes"
    /\ ip > Len(RegisterProgram)
    /\ groups' = [v \in {} |-> EchoRoot]
    /\ binds' = [v \in {} |-> ""]
    /\ ip' = 0
    /\ pc' = "createTempCertFiles"
    /\ UNCHANGED << startupVars, exitStatus, err, config, guardVars, resourceVars,
                    signalVars, echoMiddleware, routes, deferred, reqs >>

\* certFile, certKeyFile, err := createTempCertFiles(p.Config); on error
\* start returns it and main exits 1.
CreateTempCertFiles ==
    /\ Alive /\ pc = "createTempCertFiles"
    /\ \/ /\ pc' = "run"
          /\ UNCHANGED << err, exitStatus >>
       \/ /\ err' = "createTempCertFiles"
          /\ exitStatus' = "exit1"
          /\ UNCHANGED pc
    /\ UNCHANGED << startupVars, config, guardVars, resourceVars, signalVars, echoVars,
                    deferred, reqs >>

\* e.Run(engine): the server listens and serves.
Run ==
    /\ Alive /\ pc = "run"
    /\ pc' = "serving"
    /\ UNCHANGED << startupVars, exitStatus, err, config, guardVars, resourceVars,
                    signalVars, echoVars, deferred, reqs >>

\* e.Run returns (the listener could not start, or failed): start returns
\* nil and main returns, running its deferred calls.
RunReturns ==
    /\ Alive /\ pc \in {"run", "serving"}
    /\ err' = "nil"
    /\ pc' = "deferred"
    /\ UNCHANGED << startupVars, exitStatus, config, guardVars, resourceVars, signalVars,
                    echoVars, deferred, reqs >>

\* sessionStore.Close() closes the store's DbPool, which is the pool the
\* store was created from.
DeferStep ==
    /\ Alive /\ pc = "deferred"
    /\ deferred # <<>>
    /\ LET d == Head(deferred)
       IN  /\ ops' = Append(ops, << "main", d >>)
           /\ CASE d = "store.Cleanup" ->
                      /\ cleanupRunning' = cleanupRunning + 1
                      /\ deferred' = << "store.StopCleanup" >> \o Tail(deferred)
                      /\ UNCHANGED << pool, store >>
                 [] d = "store.StopCleanup" ->
                      /\ cleanupRunning' = cleanupRunning - 1
                      /\ deferred' = Tail(deferred)
                      /\ UNCHANGED << pool, store >>
                 [] d = "store.Close" ->
                      /\ store' = "closed"
                      /\ pool' = "closed"
                      /\ deferred' = Tail(deferred)
                      /\ UNCHANGED cleanupRunning
                 [] d = "pool.Close" ->
                      /\ pool' = "closed"
                      /\ deferred' = Tail(deferred)
                      /\ UNCHANGED << store, cleanupRunning >>
    /\ UNCHANGED << startupVars, pc, exitStatus, err, config, guardVars, signalVars,
                    echoVars, reqs >>

\* main returns after its deferred calls: the process exits 0.
MainReturn ==
    /\ Alive /\ pc = "deferred"
    /\ deferred = <<>>
    /\ exitStatus' = "exit0"
    /\ UNCHANGED << startupVars, pc, err, config, guardVars, resourceVars, signalVars,
                    echoVars, deferred, reqs >>

\* ------------------------------------------------------- signal goroutine
\* The environment sends SIGINT/SIGTERM: buffered in c once Notify has
\* run (dropped when c is full), the default action (termination) before.
Signal ==
    /\ Alive
    /\ signalsSent < MaxSignals
    /\ signalsSent' = signalsSent + 1
    /\ \/ /\ sigPc = "none"
          /\ exitStatus' = "signalled"
          /\ UNCHANGED sigChan
       \/ /\ sigPc # "none"
          /\ sigChan' = IF sigChan < SigChanCap THEN sigChan + 1 ELSE sigChan
          /\ UNCHANGED exitStatus
    /\ UNCHANGED << startupVars, pc, err, config, guardVars, resourceVars, sigPc, echoVars,
                    deferred, reqs >>

\* <-c
SigReceive ==
    /\ Alive /\ sigPc = "waiting"
    /\ sigChan > 0
    /\ sigChan' = sigChan - 1
    /\ sigPc' = "dbc.Close"
    /\ UNCHANGED << startupVars, pc, exitStatus, err, config, guardVars, resourceVars,
                    signalsSent, echoVars, deferred, reqs >>

\* cleanup: dbc.Close()
CleanupClosePool ==
    /\ Alive /\ sigPc = "dbc.Close"
    /\ pool' = "closed"
    /\ ops' = Append(ops, << "signal", "pool.Close" >>)
    /\ sigPc' = "ss.Close"
    /\ UNCHANGED << startupVars, pc, exitStatus, err, config, guardVars, store,
                    cleanupRunning, sigChan, signalsSent, echoVars, deferred,
                    reqs >>

\* cleanup: ss.Close()
CleanupCloseStore ==
    /\ Alive /\ sigPc = "ss.Close"
    /\ store' = "closed"
    /\ pool' = "closed"
    /\ ops' = Append(ops, << "signal", "store.Close" >>)
    /\ sigPc' = "ss.Cleanup"
    /\ UNCHANGED << startupVars, pc, exitStatus, err, config, guardVars, cleanupRunning,
                    sigChan, signalsSent, echoVars, deferred, reqs >>

\* cleanup: ss.Cleanup(time.Minute * 5) starts a cleanup goroutine
CleanupStartCleanup ==
    /\ Alive /\ sigPc = "ss.Cleanup"
    /\ cleanupRunning' = cleanupRunning + 1
    /\ ops' = Append(ops, << "signal", "store.Cleanup" >>)
    /\ sigPc' = "ss.StopCleanup"
    /\ UNCHANGED << startupVars, pc, exitStatus, err, config, guardVars, pool, store,
                    sigChan, signalsSent, echoVars, deferred, reqs >>

\* cleanup: ss.StopCleanup(...) stops the goroutine just started
CleanupStopCleanup ==
    /\ Alive /\ sigPc = "ss.StopCleanup"
    /\ cleanupRunning' = cleanupRunning - 1
    /\ ops' = Append(ops, << "signal", "store.StopCleanup" >>)
    /\ sigPc' = "os.Exit"
    /\ UNCHANGED << startupVars, pc, exitStatus, err, config, guardVars, pool, store,
                    sigChan, signalsSent, echoVars, deferred, reqs >>

\* os.Exit(1)
SigExit ==
    /\ Alive /\ sigPc = "os.Exit"
    /\ exitStatus' = "exit1"
    /\ sigPc' = "exited"
    /\ UNCHANGED << startupVars, pc, err, config, guardVars, resourceVars, sigChan,
                    signalsSent, echoVars, deferred, reqs >>

\* ---------------------------------------------------------------- requests
\* The server accepts a request for a registered route and runs the
\* interceptors wrapped around the route's handler.
Dispatch(r) ==
    /\ Alive /\ pc = "serving"
    /\ reqs[r].stage = "idle"
    /\ \E route \in routes, session \in Sessions,
          admin \in BOOLEAN, upgrading \in BOOLEAN :
          LET req == [stage |-> "received", route |-> route,
                      session |-> session, admin |-> admin,
                      upgrading |-> upgrading, trail |-> <<>>, response |-> ""]
              res == RunChain(HandlerChain(echoMiddleware, route), 1, req, <<>>)
          IN  reqs' = [reqs EXCEPT ![r] =
                         [req EXCEPT !.stage = IF res.response = ""
                                               THEN "handler" ELSE "done",
                                     !.trail = res.trail,
                                     !.response = res.response]]
    /\ UNCHANGED << startupVars, pc, exitStatus, err, config, guardVars, resourceVars,
                    signalVars, echoVars, deferred >>

\* The route handler runs to completion.
Handler(r) ==
    /\ Alive
    /\ reqs[r].stage = "handler"
    /\ reqs' = [reqs EXCEPT ![r].stage = "done", ![r].response = "OK"]
    /\ UNCHANGED << startupVars, pc, exitStatus, err, config, guardVars, resourceVars,
                    signalVars, echoVars, deferred >>

\* The response is written and the request's goroutine ends.
Respond(r) ==
    /\ Alive
    /\ reqs[r].stage = "done"
    /\ reqs' = [reqs EXCEPT ![r] = Idle]
    /\ UNCHANGED << startupVars, pc, exitStatus, err, config, guardVars, resourceVars,
                    signalVars, echoVars, deferred >>

\* ---------------------------------------------------------- specifications
NextStartup ==
    \/ LoadPortalConfig
    \/ InitializeHTTPClient
    \/ GetEncryptionKey
    \/ CheckKeyErr
    \/ GetVCSClients
    \/ CheckVCSErr
    \/ LoadDatabaseConfig
    \/ GetConnection
    \/ LoopTop
    \/ Ping
    \/ CheckTimeout
    \/ Sleep
    \/ CheckPoolErr
    \/ InitSessionStore
    \/ NewPortalProxy
    \/ SignalNotify
    \/ Start
    \/ RegisterStep
    \/ RegisterReturn
    \/ CreateTempCertFiles
    \/ Run

NextReturn ==
    \/ RunReturns
    \/ DeferStep
    \/ MainReturn

NextMain == NextStartup \/ NextReturn

NextSignal ==
    \/ Signal
    \/ SigReceive
    \/ CleanupClosePool
    \/ CleanupCloseStore
    \/ CleanupStartCleanup
    \/ CleanupStopCleanup
    \/ SigExit

NextRequests ==
    \E r \in Reqs : Dispatch(r) \/ Handler(r) \/ Respond(r)

Next == NextMain \/ NextSignal \/ NextRequests

\* The whole process: main, the signal goroutine and the requests.
Spec == Init /\ [][Next]_vars

\* main alone: no signal arrives and no request is made.
SpecMain == Init /\ [][NextMain]_vars

\* main and the signal goroutine, no request is made.
SpecShutdown == Init /\ [][NextMain \/ NextSignal]_vars

\* main up to the running server and the requests it serves: no signal
\* arrives and e.Run does not return.
SpecHTTP == Init /\ [][NextStartup \/ NextRequests]_vars

\* initializeHTTPClient alone, over the configured timeouts.
SpecHTTPClient == InitHTTPClient /\ [][InitializeHTTPClient]_vars

\* ------------------------------------------------------------------ claims
\* C1: while every ping fails, the readiness loop stops with a timeout
\* error once the 10 minute boundary has elapsed since it began polling:
\* it never goes back to sleep and retry after the boundary has passed.
C1_TimeoutOnceBoundaryElapsed ==
    pc = "sleep" => now <= TimeoutBoundary * Minute

\* C2: the readiness loop returns success with the pool at the first
\* successful ping, makes no ping and takes no sleep after it (every sleep
\* it took was followed by a ping), and returns success only after a
\* successful ping.
C2_SuccessAtFirstGoodPing ==
    /\ okPings <= 1
    /\ okPings = 1 => /\ pc = "checkPoolErr"
                      /\ err = "nil"
                      /\ pool = "open"
                      /\ sleeps = pings - 1
    /\ (pc = "checkPoolErr" /\ err = "nil") => okPings = 1

\* The loop returned success after two failed pings.
C2_Witness ==
    pc = "checkPoolErr" /\ err = "nil" /\ pings = 3 /\ sleeps = 2

\* The operations the signal goroutine performed, among the four the
\* shutdown sequence names.
ShutdownSteps ==
    {"server.Stop", "store.StopCleanup", "pool.Close", "store.Close"}

SignalShutdownOps ==
    LET mine == SelectSeq(ops, LAMBDA o : o[1] = "signal" /\ o[2] \in ShutdownSteps)
    IN  [i \in 1..Len(mine) |-> mine[i][2]]

\* C3: when the process exits after an interrupt signal it has, in this
\* order, stopped accepting connections, stopped the session store's
\* cleanup goroutine, closed the connection pool and closed the session
\* store.
C3_ShutdownOrder ==
    sigPc = "exited" =>
        SignalShutdownOps =
            << "server.Stop", "store.StopCleanup", "pool.Close", "store.Close" >>

\* C4: while the server is serving, no request handler runs with the
\* connection pool or the session store already closed by the shutdown.
C4_NoHandlerOnClosedStore ==
    \A r \in Reqs :
        (pc = "serving" /\ reqs[r].stage = "handler") =>
            (pool = "open" /\ store = "open")

\* The inline encryption key is present and is not valid hex.
InlineKeyMalformed ==
    /\ Len(config.EncryptionKey) > 0
    /\ HexDecodeString(config.EncryptionKey).err # "nil"

\* C9: with a malformed inline key, or no inline key and an unreadable
\* key file, startup does not get past the encryption key step.
C9_BadKeyIsFatal ==
    (InlineKeyMalformed \/ err = "ReadKey") =>
        pc \in {"loadPortalConfig", "initializeHTTPClient",
                "getEncryptionKey", "checkKeyErr"}

\* C10: when loading the VCS client configuration failed, the HTTP
\* surface is never registered or started.
C10_VCSConfigFailureIsFatal ==
    config.VCSClientMap = "failed" =>
        pc \notin {"start", "registerRoutes", "createTempCertFiles",
                   "run", "serving"}

\* The cluster register and unregister routes.
ClusterRegistrationPaths ==
    { <<"v1", "register", "hcf">>, <<"v1", "register", "hce">>,
      <<"v1", "unregister">> }

\* The SSO login and the logout route.
PublicPaths ==
    { <<"v1", "auth", "login", "uaa">>, <<"v1", "auth", "logout">> }

\* registerRoutes has returned.
RoutesRegistered ==
    pc \in {"createTempCertFiles", "run", "serving", "deferred"}

\* Request r has been accepted and its interceptors have run.
Active(r) == reqs[r].stage # "idle"

\* Position of interceptor m in the trail of those that ran, 0 if it did
\* not run.
Pos(trail, m) ==
    IF \E i \in 1..Len(trail) : trail[i] = m
    THEN CHOOSE i \in 1..Len(trail) : trail[i] = m
    ELSE 0

\* C5 as stated: every request to a cluster register or unregister route
\* by an identity without the admin claim is answered Forbidden, whatever
\* its session.
C5_NonAdminAlwaysForbidden ==
    \A r \in Reqs :
        (Active(r) /\ reqs[r].route.path \in ClusterRegistrationPaths
                   /\ ~reqs[r].admin)
            => reqs[r].response = "Forbidden"

\* C5, amended: a request to a cluster register or unregister route by an
\* identity without the admin claim never reaches the route handler; it
\* is answered retry-after while the process signals mid-upgrade, else
\* Unauthorized when its session is missing or expired, else Forbidden.
C5_NonAdminNeverReachesHandler ==
    \A r \in Reqs :
        (Active(r) /\ reqs[r].route.path \in ClusterRegistrationPaths
                   /\ ~reqs[r].admin)
            => /\ reqs[r].stage = "done"
               /\ reqs[r].response =
                      IF reqs[r].upgrading THEN "RetryAfter"
                      ELSE IF reqs[r].session # "valid" THEN "Unauthorized"
                      ELSE "Forbidden"

\* A non-admin identity with a valid session was refused /v1/unregister.
C5_Witness ==
    \E r \in Reqs :
        /\ reqs[r].route.path = <<"v1", "unregister">>
        /\ ~reqs[r].admin /\ reqs[r].session = "valid"
        /\ reqs[r].response = "Forbidden"

Authenticated(r) == Pos(reqs[r].route.middleware, "sessionMiddleware") # 0

\* C7 as stated: on an authenticated route session validity runs before
\* the post-upgrade guard: a request with a missing or expired session is
\* answered Unauthorized even mid-upgrade, and retry-after is only
\* answered to requests with a valid session.
C7_SessionBeforeUpgradeGuard ==
    \A r \in Reqs :
        (Active(r) /\ Authenticated(r)) =>
            /\ reqs[r].session # "valid" => reqs[r].response = "Unauthorized"
            /\ reqs[r].response = "RetryAfter" => reqs[r].session = "valid"

\* C7, amended: on an authenticated route the interceptors run in the
\* order post-upgrade guard, then session validity, then admin guard
\* (where attached), each able to short-circuit: a request made while the
\* process signals mid-upgrade is answered retry-after whatever its
\* session and session validity does not run for it; Unauthorized and
\* Forbidden are only answered to requests that passed the post-upgrade
\* guard.
C7_UpgradeGuardBeforeSession ==
    \A r \in Reqs :
        (Active(r) /\ Authenticated(r)) =>
            LET t == reqs[r].trail
                up == Pos(t, "retryAfterUpgradeMiddleware")
                se == Pos(t, "sessionMiddleware")
                ad == Pos(t, "stackatoAdminMiddleware")
            IN  /\ up # 0
                /\ se # 0 => up < se
                /\ ad # 0 => se # 0 /\ se < ad
                /\ reqs[r].upgrading =>
                       reqs[r].response = "RetryAfter" /\ se = 0 /\ ad = 0
                /\ reqs[r].response \in {"Unauthorized", "Forbidden"} =>
                       ~reqs[r].upgrading
                /\ (~reqs[r].upgrading /\ reqs[r].session # "valid") =>
                       reqs[r].response = "Unauthorized" /\ ad = 0

\* A request without a session, made mid-upgrade to an authenticated
\* route, was answered retry-after.
C7_Witness ==
    \E r \in Reqs :
        /\ Active(r) /\ Authenticated(r)
        /\ reqs[r].upgrading /\ reqs[r].session = "missing"
        /\ reqs[r].response = "RetryAfter"

\* C8: every registered route other than the SSO login and the logout
\* route is wrapped by the session validity middleware (17 routes once
\* registerRoutes has returned), and a request to such a route without a
\* valid session never reaches the route handler.
C8_SessionMiddlewareOnEveryOtherRoute ==
    /\ \A route \in routes :
          route.path \notin PublicPaths =>
              Pos(route.middleware, "sessionMiddleware") # 0
    /\ RoutesRegistered =>
          Cardinality({route \in routes : route.path \notin PublicPaths}) = 17
    /\ \A r \in Reqs :
          (Active(r) /\ reqs[r].route.path \notin PublicPaths
                     /\ reqs[r].session # "valid")
              => /\ reqs[r].stage = "done"
                 /\ reqs[r].response # "OK"

\* A request with an expired session to the /v1/vcs catch-all was
\* answered Unauthorized.
C8_Witness ==
    \E r \in Reqs :
        /\ reqs[r].route.path = <<"v1", "vcs", "*">>
        /\ reqs[r].session = "expired"
        /\ reqs[r].response = "Unauthorized"

\* ------------------------------------------------------- startup order
\* Positions of main inside each startup step.
CipherPcs == {"getEncryptionKey", "checkKeyErr"}

GuardPcs ==
    {"loadDatabaseConfig", "getConnection", "loopTop", "ping",
     "checkTimeout", "sleep", "checkPoolErr"}

StorePcs == {"initSessionStore"}

HTTPPcs == {"start", "registerRoutes", "createTempCertFiles", "run", "serving"}

BeforeCipherPcs == {"loadPortalConfig", "initializeHTTPClient"}

BeforeGuardPcs ==
    BeforeCipherPcs \cup CipherPcs \cup {"getVCSClients", "checkVCSErr"}

BeforeStorePcs == BeforeGuardPcs \cup GuardPcs

BeforeHTTPPcs ==
    BeforeStorePcs \cup StorePcs \cup {"newPortalProxy", "signalNotify"}

\* getEncryptionKey has returned a nil error: from the inline key without
\* touching the file, or from a key file that was readable.
KeyReturnedNoError ==
    \/ Len(config.EncryptionKey) > 0 /\ keyFile = "unread"
    \/ keyFile = "read" /\ config.EncryptionKeyInBytes = VolumeKey

\* The HTTP surface has been touched: middleware installed or a route added.
HTTPTouched == echoMiddleware # << >> \/ routes # {}

Seconds(n) == MulDuration(Duration(n), Duration(SecondInNanos))

\* C12: once initializeHTTPClient has run with HTTPClientTimeoutInSecs = n,
\* n > 0, httpClient.Timeout is positive and equals n seconds.
C12_TimeoutIsConfiguredSeconds ==
    (pc = "getEncryptionKey" /\ config.HTTPClientTimeoutInSecs > 0) =>
        /\ PositiveDuration(httpClientTimeout)
        /\ httpClientTimeout = Seconds(config.HTTPClientTimeoutInSecs)

\* ------------------------------------------------ cleanup at shutdown
\* Operation i of ops was performed with the store and the pool behind it
\* still open: no Close precedes it.
BeforeAnyClose(i) ==
    \A j \in 1..(i - 1) : ops[j][2] \notin {"store.Close", "pool.Close"}

\* C13: a graceful shutdown, once it has exited, has run the session
\* store's cleanup, and every cleanup it started was started while the
\* store and the connection pool were still open.
C13_ShutdownCleanupOnOpenStore ==
    /\ sigPc = "exited" =>
          \E i \in DOMAIN ops : ops[i] = << "signal", "store.Cleanup" >>
    /\ \A i \in DOMAIN ops :
          ops[i] = << "signal", "store.Cleanup" >> => BeforeAnyClose(i)

\* ------------------------------------------------------ fatal startup
\* The errors of the four startup steps main treats as fatal.
StartupErrs ==
    {"loadPortalConfig", "ReadKey", "loadDatabaseConfig", "GetConnection",
     "Timeout", "initSessionStore"}

\* Where main stands once a step has reported error e: at the step, when
\* the step's action also takes the exit, else at the check that follows.
FailedAt(e) ==
    CASE e = "loadPortalConfig" -> "loadPortalConfig"
      [] e = "ReadKey" -> "checkKeyErr"
      [] e = "initSessionStore" -> "initSessionStore"
      [] OTHER -> "checkPoolErr"

\* C14: the HTTP surface is registered and started only when loading the
\* portal configuration, retrieving the encryption key, initialising the
\* connection pool and initialising the session store all returned
\* without error; once one of them has failed, main is at that step, has
\* exited with status 1 or is at the check that exits, and nothing of a
\* later step exists.
C14_HTTPOnlyAfterFourSteps ==
    /\ (pc \in HTTPPcs \/ HTTPTouched) =>
          /\ config.HTTPClientTimeoutInSecs \in HTTPClientTimeouts
          /\ KeyReturnedNoError
          /\ pool # "nil"
          /\ store # "nil"
    /\ err \in StartupErrs =>
          /\ pc = FailedAt(err)
          /\ exitStatus = "exit1" \/ pc \in {"checkKeyErr", "checkPoolErr"}
          /\ exitStatus # "exit0"
          /\ ~HTTPTouched
          /\ store = "nil"
          /\ err \in {"loadPortalConfig", "ReadKey"} => pool = "nil"

\* The readiness loop timed out and main exited with status 1, the pool
\* opened but no store and no HTTP surface.
C14_Witness ==
    /\ exitStatus = "exit1" /\ err = "Timeout"
    /\ pc = "checkPoolErr" /\ pool = "open" /\ store = "nil"

\* -------------------------------------------------- server start failure
\* C15: when the server cannot be started the process exits with a
\* non-zero status: a failure to write the certificate files is followed
\* by exit status 1, and once e.Run has returned and main has gone through
\* its deferred calls, the exit status is not 0.
C15_ServerStartFailureExitsNonZero ==
    /\ err = "createTempCertFiles" => exitStatus = "exit1"
    /\ (pc = "deferred" /\ ~Alive) => exitStatus # "exit0"

\* ---------------------------------------------------- one key source
\* C16: when getEncryptionKey has returned, exactly one key source was
\* consulted. With a non-empty inline key the key file was not read and
\* the result is what the inline value decodes to, with a nil error; with
\* an empty inline key the file was read and the result is its outcome,
\* the file's key on success and the read error on failure.
C16_ExactlyOneKeySource ==
    pc = "checkKeyErr" =>
        IF Len(config.EncryptionKey) > 0
        THEN /\ keyFile = "unread"
             /\ err = "nil"
             /\ config.EncryptionKeyInBytes =
                   HexDecodeString(config.EncryptionKey).bytes
        ELSE /\ keyFile \in {"read", "unreadable"}
             /\ keyFile = "read" =>
                   err = "nil" /\ config.EncryptionKeyInBytes = VolumeKey
             /\ keyFile = "unreadable" =>
                   err = "ReadKey" /\ config.EncryptionKeyInBytes = << >>

\* getEncryptionKey has returned on an inline key that does not decode,
\* without having turned to the key file.
C16_Witness ==
    /\ pc = "checkKeyErr"
    /\ InlineKeyMalformed
    /\ keyFile = "unread"

\* ------------------------------------------------ closing exactly once
\* How many times operation name was performed, by either goroutine.
Count(name) == Cardinality({i \in DOMAIN ops : ops[i][2] = name})

\* C17: the connection pool and the session store are each closed at most
\* once, by main's deferred calls and the signal goroutine together, and
\* no Cleanup or StopCleanup is issued on the store after its Close.
C17_ClosedOnceAndUnusedAfterClose ==
    /\ Count("pool.Close") <= 1
    /\ Count("store.Close") <= 1
    /\ \A i \in DOMAIN ops :
          ops[i][2] \in {"store.Cleanup", "store.StopCleanup"} =>
              \A j \in 1..(i - 1) : ops[j][2] # "store.Close"

\* ------------------------------------------------- exit after cleanup
\* C18: once the signal goroutine has taken a signal from the channel, the
\* process is gone only after cleanup() has returned: the goroutine has
\* reached os.Exit, pool and store are closed and the cleanup goroutine it
\* started has been stopped.
C18_ExitOnlyAfterCleanupReturned ==
    (~Alive /\ sigPc \notin {"none", "waiting"}) =>
        /\ sigPc = "exited"
        /\ pool = "closed" /\ store = "closed"
        /\ cleanupRunning = 0

====
